---- MODULE Spec2Model ----
(***************************************************************************)
(* ucsm_apis.network: the VLAN, LAN pin group, VLAN group (vlan.py) and    *)
(* port channel (port_channel.py) accessors, run against a remote          *)
(* management-object tree reached through a UcsHandle.                     *)
(*                                                                         *)
(* State: the remote tree (DN -> managed object), the handle's staged      *)
(* changes, and a record of the last accessor call (its arguments, the     *)
(* tree it started from, how it ended, the handle primitives it invoked).  *)
(* Every accessor is one action.  A Python name that is looked up but      *)
(* bound neither locally nor in its module's namespace raises NameError at *)
(* the point of the lookup; the code after it is still modelled.           *)
(***************************************************************************)
EXTENDS Naturals, Sequences, FiniteSets, TLC

VARIABLES tree, staged, pre, last

vars == <<tree, staged, pre, last>>

(***************************************************************************)
(* Bounds and input sets                                                   *)
(***************************************************************************)
\* Managed objects (besides the fabric and org roots) in the initial tree.
MaxObjects == 2

\* Python's None, as an argument value or a return value.
None == "None"

PropKeys == {"descr", "policy_owner"}
PropVals == {"local", "policy"}

\* **kwargs: a mapping from some property names to values.
KwargsSet == UNION {[S -> PropVals] : S \in SUBSET PropKeys}
NoKwargs == [k \in {} |-> "local"]
\* The overrides the accessors are called with here: none, one key, two keys.
CallKwargs == {kw \in KwargsSet :
                 \/ DOMAIN kw = {}
                 \/ DOMAIN kw = {"descr"}
                 \/ DOMAIN kw = PropKeys /\ kw["descr"] = kw["policy_owner"]}

VlanNames == {"v", "group-g"}
VlanTypes == {"lan", "appliance", "bogus"}
Fabrics == {None, "A"}
PcFabrics == {"A", "C"}
PcPortIds == {"5"}
PinGroupNames == {"pg"}
FabricIds == {"A"}
GroupNames == {"g"}
OrgDns == {"org-root", "org-root/org-x"}
SwitchIds == {"A"}
SlotIds == {"1"}
PortIds == {"2"}

(***************************************************************************)
(* Module namespaces                                                       *)
(***************************************************************************)
_lan_dn == "fabric/lan"
_appliance_dn == "fabric/eth-estc"

\* Names bound at module level in vlan.py: its one import, _lan_dn, its defs.
vlan_globals ==
  {"UcsOperationError", "_lan_dn", "_vlan_parent_get",
   "vlan_create", "vlan_get", "vlan_exists", "vlan_modify", "vlan_delete",
   "lan_pin_group_create", "lan_pin_group_get", "lan_pin_group_exists",
   "lan_pin_group_modify", "lan_pin_group_delete",
   "lan_pin_group_target_add", "lan_pin_group_target_get",
   "lan_pin_group_target_exists", "lan_pin_group_target_modify",
   "lan_pin_group_target_remove",
   "vlan_group_create", "vlan_group_get", "vlan_group_exists",
   "vlan_group_modify", "vlan_group_delete",
   "vlan_group_vlan_add", "vlan_group_vlan_get", "vlan_group_vlan_exists",
   "vlan_group_vlan_remove",
   "vlan_group_org_add", "vlan_group_org_get", "vlan_group_org_exists",
   "vlan_group_org_remove",
   "vlan_group_uplink_port_add", "vlan_group_uplink_port_get",
   "vlan_group_uplink_port_exists", "vlan_group_uplink_port_remove"}

\* Names bound at module level in port_channel.py.
port_channel_globals ==
  {"UcsOperationError", "_lan_dn", "_appliance_dn",
   "lan_port_channel_create", "lan_port_channel_get",
   "lan_port_channel_exists", "lan_port_channel_modify",
   "lan_port_channel_delete",
   "lan_port_channel_port_add", "lan_port_channel_port_get",
   "lan_port_channel_port_exists", "lan_port_channel_port_modify",
   "lan_port_channel_port_remove"}

\* Python's lookup of `name` in a function whose locals are `locals`.
Bound(name, locals, globals) == name \in locals \/ name \in globals

(***************************************************************************)
(* Managed objects and the handle                                          *)
(***************************************************************************)
NoProps == [k \in {} |-> "local"]
NoMo == [dn |-> "", cls |-> "", props |-> NoProps]
Mo(dn, cls, props) == [dn |-> dn, cls |-> cls, props |-> props]

\* mo.set_prop_multiple(**kwargs): the given keys overwrite, the rest stay.
set_prop_multiple(mo, kwargs) ==
  [mo EXCEPT !.props =
     [k \in DOMAIN mo.props \cup DOMAIN kwargs |->
        IF k \in DOMAIN kwargs THEN kwargs[k] ELSE mo.props[k]]]

\* mo.check_prop_match(**kwargs): every given key has the given value.
check_prop_match(mo, kwargs) ==
  \A k \in DOMAIN kwargs : k \in DOMAIN mo.props /\ mo.props[k] = kwargs[k]

\* The handle during one accessor call: remote tree, staged changes, and the
\* primitives invoked so far.
Handle(t, s) == [tree |-> t, staged |-> s, log |-> <<>>]

Logged(h, prim, dn) ==
  [h EXCEPT !.log = Append(h.log, [prim |-> prim, dn |-> dn])]

\* handle.query_dn(dn): the object at exactly this DN, or None.
query_dn_mo(h, dn) ==
  IF dn \in DOMAIN h.tree THEN Mo(dn, h.tree[dn].cls, h.tree[dn].props)
  ELSE NoMo
query_dn_found(h, dn) == dn \in DOMAIN h.tree
query_dn(h, dn) == Logged(h, "query_dn", dn)

Stage(h, prim, verb, mo) ==
  [Logged(h, prim, mo.dn) EXCEPT
     !.staged = Append(h.staged, [verb |-> verb, mo |-> mo])]

\* handle.add_mo(mo, modify_present=True): stage an upsert.
add_mo(h, mo) == Stage(h, "add_mo", "add", mo)
\* handle.set_mo(mo): stage an update.
set_mo(h, mo) == Stage(h, "set_mo", "set", mo)
\* handle.remove_mo(mo): stage a deletion.
remove_mo(h, mo) == Stage(h, "remove_mo", "remove", mo)

\* d names an object in the subtree below p.
IsUnder(d, p) ==
  Len(d) > Len(p) + 1 /\ SubSeq(d, 1, Len(p) + 1) = p \o "/"

ApplyChange(t, c) ==
  IF c.verb = "remove"
  THEN [d \in {x \in DOMAIN t : x # c.mo.dn /\ ~IsUnder(x, c.mo.dn)} |-> t[d]]
  ELSE [d \in DOMAIN t \cup {c.mo.dn} |->
          IF d = c.mo.dn THEN [cls |-> c.mo.cls, props |-> c.mo.props]
          ELSE t[d]]

RECURSIVE ApplyStaged(_, _)
ApplyStaged(t, s) ==
  IF s = <<>> THEN t ELSE ApplyStaged(ApplyChange(t, Head(s)), Tail(s))

\* handle.commit(): flush the staged changes to the remote tree.
commit(h) ==
  [Logged(h, "commit", "") EXCEPT
     !.tree = ApplyStaged(h.tree, h.staged), !.staged = <<>>]

(***************************************************************************)
(* How an accessor ends                                                    *)
(***************************************************************************)
NoMsg == [fmt |-> "", arg |-> ""]
\* "fmt" % arg
Fmt(fmt, arg) == [fmt |-> fmt, arg |-> arg]

Return(h, flag, mo) ==
  [h |-> h, kind |-> "ok", label |-> "", msg |-> NoMsg,
   flag |-> flag, mo |-> mo]
ReturnNone(h) == Return(h, FALSE, NoMo)

\* raise UcsOperationError(label, "fmt" % arg)
RaiseOp(h, label, fmt, arg) ==
  [h |-> h, kind |-> "UcsOperationError", label |-> label,
   msg |-> Fmt(fmt, arg), flag |-> FALSE, mo |-> NoMo]

\* NameError: name 'name' is not defined
RaiseName(h, name) ==
  [h |-> h, kind |-> "NameError", label |-> "",
   msg |-> Fmt("name '%s' is not defined", name), flag |-> FALSE, mo |-> NoMo]

(***************************************************************************)
(* Shared shapes of the accessors                                          *)
(***************************************************************************)
\* mo = handle.query_dn(dn); if mo is None: raise UcsOperationError(caller,
\* fmt % dn); return mo
get_by_dn(h, dn, caller, fmt) ==
  LET h1 == query_dn(h, dn) IN
  IF ~query_dn_found(h, dn) THEN RaiseOp(h1, caller, fmt, dn)
  ELSE Return(h1, TRUE, query_dn_mo(h, dn))

\* try: <get> / except UcsOperationError: return (False, None) /
\* mo_exists = mo.check_prop_match(**kwargs) /
\* return (mo_exists, mo if mo_exists else None)
\* `r` is how the get ended, `moBound` whether the name mo is bound there.
exists_tail(r, moBound, kwargs) ==
  IF r.kind = "UcsOperationError" THEN Return(r.h, FALSE, NoMo)
  ELSE IF r.kind # "ok" THEN r
  ELSE IF ~moBound THEN RaiseName(r.h, "mo")
  ELSE LET mo_exists == check_prop_match(r.mo, kwargs) IN
       Return(r.h, mo_exists, IF mo_exists THEN r.mo ELSE NoMo)

\* <get> / mo.set_prop_multiple(**kwargs) / handle.set_mo(mo) /
\* handle.commit() / return mo
modify_tail(r, moBound, kwargs) ==
  IF r.kind # "ok" THEN r
  ELSE IF ~moBound THEN RaiseName(r.h, "mo")
  ELSE LET mo == set_prop_multiple(r.mo, kwargs) IN
       Return(commit(set_mo(r.h, mo)), TRUE, mo)

\* A delete/remove that stages the removal and returns without
\* handle.commit().
delete_tail_uncommitted(r, moBound, returnsMo) ==
  IF r.kind # "ok" THEN r
  ELSE IF ~moBound THEN RaiseName(r.h, "mo")
  ELSE LET h2 == remove_mo(r.h, r.mo) IN
       IF returnsMo THEN Return(h2, TRUE, r.mo) ELSE ReturnNone(h2)

\* <get> / handle.remove_mo(mo) / handle.commit() [/ return mo]
delete_tail(r, moBound, returnsMo) ==
  IF r.kind # "ok" THEN r
  ELSE IF ~moBound THEN RaiseName(r.h, "mo")
  ELSE LET h2 == commit(remove_mo(r.h, r.mo)) IN
       IF returnsMo THEN Return(h2, TRUE, r.mo) ELSE ReturnNone(h2)

\* mo = <Class>(parent_mo_or_dn=..., <fields>) /
\* mo.set_prop_multiple(**kwargs) / handle.add_mo(mo, True) /
\* handle.commit() / return mo
\* `classBound`: whether the class name is bound where it is called.
create_tail(h, classBound, className, cls, parent_dn, rn, fields, kwargs) ==
  IF ~classBound THEN RaiseName(h, className)
  ELSE LET mo == set_prop_multiple(Mo(parent_dn \o "/" \o rn, cls, fields),
                                   kwargs) IN
       Return(commit(add_mo(h, mo)), TRUE, mo)

(***************************************************************************)
(* vlan.py: VLAN                                                           *)
(***************************************************************************)
\* A validation that lets every vlan_type through.
vlan_type_valid_any(vlan_type) == vlan_type = vlan_type

vlan_type_valid(vlan_type) == ~(vlan_type # "lan" /\ vlan_type # "appliance")

\* def _vlan_parent_get(vlan_type, fabric, caller): no handle parameter.
_vlan_parent_get_locals == {"vlan_type", "fabric", "caller", "dn", "mo"}

_vlan_parent_get(h, vlan_type, fabric, caller) ==
  IF ~vlan_type_valid(vlan_type)
  THEN RaiseOp(h, caller, "Vlan Type %s does not exist", vlan_type)
  ELSE IF vlan_type # "lan"
          /\ ~Bound("_appliance_dn", _vlan_parent_get_locals, vlan_globals)
  THEN RaiseName(h, "_appliance_dn")
  ELSE IF ~Bound("handle", _vlan_parent_get_locals, vlan_globals)
  THEN RaiseName(h, "handle")
  ELSE LET dn == IF vlan_type = "lan" THEN _lan_dn ELSE _appliance_dn
           h1 == query_dn(h, dn)
       IN  IF ~query_dn_found(h, dn)
           THEN RaiseOp(h1, caller, "Fabric %s '%s' does not exist.", dn)
           ELSE IF fabric = None THEN Return(h1, TRUE, query_dn_mo(h, dn))
           ELSE LET dn2 == dn \o fabric
                    h2 == query_dn(h1, dn2)
                IN  IF ~query_dn_found(h1, dn2)
                    THEN RaiseOp(h2, caller,
                                 "Fabric %s '%s' does not exist.", dn2)
                    ELSE Return(h2, TRUE, query_dn_mo(h1, dn2))

vlan_create(h, name, id, vlan_type, fabric, sharing, compression_type,
            kwargs) ==
  LET obj == _vlan_parent_get(h, vlan_type, fabric, "vlan_create") IN
  IF obj.kind # "ok" THEN obj
  ELSE create_tail(obj.h, TRUE, "FabricVlan", "fabricVlan", obj.mo.dn,
                   "net-" \o name,
                   [name |-> name, id |-> id, sharing |-> sharing,
                    compression_type |-> compression_type,
                    default_net |-> "no", policy_owner |-> "local",
                    mcast_policy_name |-> None, pub_nw_name |-> None],
                   kwargs)

\* dn = _lan_dn if vlan_type == "lan" else _appliance_dn
\* dn += "/" + fabric if fabric else ""   (None and "" are both falsy)
\* dn += "/net-" + name
vlan_dn(name, vlan_type, fabric) ==
  (IF vlan_type = "lan" THEN _lan_dn ELSE _appliance_dn)
    \o (IF fabric # None /\ fabric # "" THEN "/" \o fabric ELSE "")
    \o "/net-" \o name

vlan_get_locals == {"handle", "name", "vlan_type", "fabric", "caller", "dn",
                    "mo"}

vlan_get(h, name, vlan_type, fabric, caller) ==
  IF ~vlan_type_valid(vlan_type)
  THEN RaiseOp(h, "vlan_get", "Vlan Type %s does not exist", vlan_type)
  ELSE IF vlan_type # "lan"
          /\ ~Bound("_appliance_dn", vlan_get_locals, vlan_globals)
  THEN RaiseName(h, "_appliance_dn")
  ELSE get_by_dn(h, vlan_dn(name, vlan_type, fabric), caller,
                 "Vlan '%s' does not exist")

vlan_exists(h, name, vlan_type, fabric, kwargs) ==
  exists_tail(vlan_get(h, name, vlan_type, fabric, "vlan_exists"),
              TRUE, kwargs)

vlan_modify(h, name, vlan_type, fabric, kwargs) ==
  modify_tail(vlan_get(h, name, vlan_type, fabric, "vlan_modify"),
              TRUE, kwargs)

vlan_delete(h, name, vlan_type, fabric) ==
  delete_tail(vlan_get(h, name, vlan_type, fabric, "vlan_delete"),
              TRUE, FALSE)

(***************************************************************************)
(* port_channel.py: LAN port channel                                       *)
(***************************************************************************)
lan_port_channel_create_locals ==
  {"handle", "fabric", "port_id", "flow_ctrl_policy", "lacp_policy_name",
   "admin_speed", "oper_speed", "auto_negotiate", "admin_state", "kwargs",
   "parent_dn", "mo"}

lan_port_channel_create(h, fabric, port_id, admin_state, kwargs) ==
  LET parent_dn == _lan_dn \o "/" \o fabric IN
  create_tail(h,
              Bound("FabricEthLanPc", lan_port_channel_create_locals,
                    port_channel_globals),
              "FabricEthLanPc", "fabricEthLanPc", parent_dn,
              "pc-" \o port_id,
              [port_id |-> port_id, flow_ctrl_policy |-> "default",
               lacp_policy_name |-> "default", admin_speed |-> "10gbps",
               oper_speed |-> "10gbps", auto_negotiate |-> "yes",
               admin_state |-> admin_state],
              kwargs)

lan_port_channel_dn(fabric, port_id) ==
  _lan_dn \o "/" \o fabric \o "/pc-" \o port_id

lan_port_channel_get(h, fabric, port_id, caller) ==
  get_by_dn(h, lan_port_channel_dn(fabric, port_id), caller,
            "Port Channel '%s' does not exist")

lan_port_channel_exists(h, fabric, port_id, kwargs) ==
  exists_tail(lan_port_channel_get(h, fabric, port_id,
                                   "lan_port_channel_exists"),
              TRUE, kwargs)

lan_port_channel_modify(h, fabric, port_id, kwargs) ==
  modify_tail(lan_port_channel_get(h, fabric, port_id,
                                   "lan_port_channel_modify"),
              TRUE, kwargs)

lan_port_channel_delete(h, fabric, port_id) ==
  delete_tail(lan_port_channel_get(h, fabric, port_id,
                                   "lan_port_channel_delete"),
              TRUE, TRUE)

(***************************************************************************)
(* vlan.py: LAN pin group and its targets                                  *)
(***************************************************************************)
lan_pin_group_create_locals ==
  {"handle", "name", "policy_owner", "descr", "kwargs", "mo"}

lan_pin_group_create(h, name, policy_owner, descr, kwargs) ==
  create_tail(h,
              Bound("FabricLanPinGroup", lan_pin_group_create_locals,
                    vlan_globals),
              "FabricLanPinGroup", "fabricLanPinGroup", _lan_dn,
              "lan-pin-group-" \o name,
              [name |-> name, policy_owner |-> policy_owner,
               descr |-> descr],
              kwargs)

\* The pin group's DN built with the VLAN group's prefix.
lan_pin_group_dn_as_group(name) == _lan_dn \o "/net-group-" \o name

lan_pin_group_dn(name) == _lan_dn \o "/lan-pin-group-" \o name

lan_pin_group_get(h, name, caller) ==
  get_by_dn(h, lan_pin_group_dn(name), caller,
            "LAN Pin Group '%s' does not exist")

\* The result of the get is not assigned: mo is no local of this function.
lan_pin_group_exists_locals == {"handle", "name", "kwargs", "mo_exists"}

lan_pin_group_exists(h, name, kwargs) ==
  exists_tail(lan_pin_group_get(h, name, "lan_pin_group_exists"),
              Bound("mo", lan_pin_group_exists_locals, vlan_globals),
              kwargs)

lan_pin_group_modify(h, name, kwargs) ==
  modify_tail(lan_pin_group_get(h, name, "lan_ping_group_modify"),
              TRUE, kwargs)

lan_pin_group_delete(h, name) ==
  delete_tail(lan_pin_group_get(h, name, "lan_ping_group_delete"),
              TRUE, FALSE)

lan_pin_group_target_add_locals ==
  {"handle", "lan_pin_group_name", "fabric_id", "slot_id", "port_id",
   "aggr_port_id", "ep_dn", "kwargs", "lan_pin_group", "mo"}

lan_pin_group_target_add(h, lan_pin_group_name, fabric_id, kwargs) ==
  LET lan_pin_group == lan_pin_group_get(h, lan_pin_group_name,
                                         "lan_pin_group_target_add") IN
  IF lan_pin_group.kind # "ok" THEN lan_pin_group
  ELSE create_tail(lan_pin_group.h,
                   Bound("FabricLanPinTarget",
                         lan_pin_group_target_add_locals, vlan_globals),
                   "FabricLanPinTarget", "fabricLanPinTarget",
                   lan_pin_group.mo.dn, "target-" \o fabric_id,
                   [fabric_id |-> fabric_id, slot_id |-> "0",
                    port_id |-> "0", aggr_port_id |-> "0", ep_dn |-> None],
                   kwargs)

lan_pin_group_target_dn(lan_pin_group_name, fabric_id) ==
  LET lan_pin_group_dn_ == _lan_dn \o "/lan-pin-group-" \o lan_pin_group_name
  IN  lan_pin_group_dn_ \o "/target-" \o fabric_id

lan_pin_group_target_get(h, lan_pin_group_name, fabric_id, caller) ==
  get_by_dn(h, lan_pin_group_target_dn(lan_pin_group_name, fabric_id),
            caller, "Lan Pin Group Target '%s' does not exist")

\* In the three accessors below the result of the get is not assigned.
lan_pin_group_target_exists_locals ==
  {"handle", "lan_pin_group_name", "fabric_id", "kwargs", "mo_exists"}

lan_pin_group_target_exists(h, lan_pin_group_name, fabric_id, kwargs) ==
  exists_tail(lan_pin_group_target_get(h, lan_pin_group_name, fabric_id,
                                       "lan_pin_group_target_exists"),
              Bound("mo", lan_pin_group_target_exists_locals, vlan_globals),
              kwargs)

lan_pin_group_target_modify_locals ==
  {"handle", "lan_pin_group_name", "fabric_id", "kwargs"}

lan_pin_group_target_modify(h, lan_pin_group_name, fabric_id, kwargs) ==
  modify_tail(lan_pin_group_target_get(h, lan_pin_group_name, fabric_id,
                                       "lan_pin_group_target_modify"),
              Bound("mo", lan_pin_group_target_modify_locals, vlan_globals),
              kwargs)

lan_pin_group_target_remove_locals ==
  {"handle", "lan_pin_group_name", "fabric_id"}

lan_pin_group_target_remove(h, lan_pin_group_name, fabric_id) ==
  delete_tail(lan_pin_group_target_get(h, lan_pin_group_name, fabric_id,
                                       "lan_pin_group_target_remove"),
              Bound("mo", lan_pin_group_target_remove_locals, vlan_globals),
              FALSE)

(***************************************************************************)
(* vlan.py: VLAN group                                                     *)
(***************************************************************************)
vlan_group_create_locals ==
  {"handle", "name", "policy_owner", "type", "descr", "native_net",
   "kwargs", "mo"}

vlan_group_create(h, name, policy_owner, descr, kwargs) ==
  create_tail(h,
              Bound("FabricNetGroup", vlan_group_create_locals, vlan_globals),
              "FabricNetGroup", "fabricNetGroup", _lan_dn,
              "net-group-" \o name,
              [name |-> name, policy_owner |-> policy_owner,
               type |-> "mgmt", descr |-> descr, native_net |-> None],
              kwargs)

vlan_group_dn(name) == _lan_dn \o "/net-group-" \o name

vlan_group_get(h, name, caller) ==
  get_by_dn(h, vlan_group_dn(name), caller,
            "VLAN Group '%s' does not exist")

vlan_group_exists_locals == {"handle", "name", "kwargs", "mo_exists"}

vlan_group_exists(h, name, kwargs) ==
  exists_tail(vlan_group_get(h, name, "vlan_group_exists"),
              Bound("mo", vlan_group_exists_locals, vlan_globals),
              kwargs)

vlan_group_modify(h, name, kwargs) ==
  modify_tail(vlan_group_get(h, name, "vlan_group_modify"), TRUE, kwargs)

vlan_group_delete(h, name) ==
  delete_tail(vlan_group_get(h, name, "vlan_group_delete"), TRUE, FALSE)

(***************************************************************************)
(* vlan.py: VLAN group members, org associations, uplink ports             *)
(***************************************************************************)
vlan_group_vlan_add_locals ==
  {"handle", "vlan_group_name", "name", "kwargs", "vlan", "vlan_group", "mo"}

\* The VLAN is looked up with vlan_get's defaults: vlan_type "lan", no fabric.
vlan_group_vlan_add(h, vlan_group_name, name, kwargs) ==
  LET vlan == vlan_get(h, name, "lan", None, "vlan_group_vlan_add") IN
  IF vlan.kind # "ok" THEN vlan
  ELSE LET vlan_group == vlan_group_get(vlan.h, vlan_group_name,
                                        "vlan_group_vlan_add") IN
       IF vlan_group.kind # "ok" THEN vlan_group
       ELSE create_tail(vlan_group.h,
                        Bound("FabricPooledVlan", vlan_group_vlan_add_locals,
                              vlan_globals),
                        "FabricPooledVlan", "fabricPooledVlan",
                        vlan_group.mo.dn, "net-" \o name,
                        [name |-> name], kwargs)

vlan_group_vlan_dn(vlan_group_name, name) ==
  LET vlan_group_dn_ == _lan_dn \o "/net-group-" \o vlan_group_name
  IN  vlan_group_dn_ \o "/net-" \o name

vlan_group_vlan_get(h, vlan_group_name, name, caller) ==
  get_by_dn(h, vlan_group_vlan_dn(vlan_group_name, name), caller,
            "vlan member '%s' does not exist")

vlan_group_vlan_exists_locals ==
  {"handle", "vlan_group_name", "name", "kwargs", "mo_exists"}

vlan_group_vlan_exists(h, vlan_group_name, name, kwargs) ==
  exists_tail(vlan_group_vlan_get(h, vlan_group_name, name,
                                  "vlan_group_vlan_exists"),
              Bound("mo", vlan_group_vlan_exists_locals, vlan_globals),
              kwargs)

vlan_group_vlan_remove_locals == {"handle", "vlan_group_name", "name"}

vlan_group_vlan_remove(h, vlan_group_name, name) ==
  delete_tail(vlan_group_vlan_get(h, vlan_group_name, name,
                                  "vlan_group_vlan_remove"),
              Bound("mo", vlan_group_vlan_remove_locals, vlan_globals),
              FALSE)

vlan_group_org_add_locals ==
  {"handle", "vlan_group_name", "org_dn", "kwargs", "org", "vlan_group",
   "mo"}

\* FabricVlanGroupReq is looked up before its argument name=name is.
vlan_group_org_add(h, vlan_group_name, org_dn, kwargs) ==
  LET h1 == query_dn(h, org_dn) IN
  IF ~query_dn_found(h, org_dn)
  THEN RaiseOp(h1, "vlan_group_org_add", "Org '%s' does not exist", org_dn)
  ELSE LET vlan_group == vlan_group_get(h1, vlan_group_name,
                                        "vlan_group_org_add") IN
       IF vlan_group.kind # "ok" THEN vlan_group
       ELSE IF ~Bound("FabricVlanGroupReq", vlan_group_org_add_locals,
                      vlan_globals)
       THEN RaiseName(vlan_group.h, "FabricVlanGroupReq")
       ELSE IF ~Bound("name", vlan_group_org_add_locals, vlan_globals)
       THEN RaiseName(vlan_group.h, "name")
       ELSE create_tail(vlan_group.h, TRUE, "FabricVlanGroupReq",
                        "fabricVlanGroupReq", org_dn,
                        "vlan-group-req-" \o vlan_group_name,
                        [name |-> vlan_group_name], kwargs)

vlan_group_org_dn(vlan_group_name, org_dn) ==
  org_dn \o "/vlan-group-req-" \o vlan_group_name

vlan_group_org_get(h, vlan_group_name, org_dn, caller) ==
  get_by_dn(h, vlan_group_org_dn(vlan_group_name, org_dn), caller,
            "vlan group org '%s' does not exist")

vlan_group_org_exists_locals ==
  {"handle", "vlan_group_name", "org_dn", "kwargs", "mo_exists"}

vlan_group_org_exists(h, vlan_group_name, org_dn, kwargs) ==
  exists_tail(vlan_group_org_get(h, vlan_group_name, org_dn,
                                 "vlan_group_org_exists"),
              Bound("mo", vlan_group_org_exists_locals, vlan_globals),
              kwargs)

vlan_group_org_remove_locals == {"handle", "vlan_group_name", "org_dn"}

vlan_group_org_remove(h, vlan_group_name, org_dn) ==
  delete_tail(vlan_group_org_get(h, vlan_group_name, org_dn,
                                 "vlan_group_org_remove"),
              Bound("mo", vlan_group_org_remove_locals, vlan_globals),
              FALSE)

vlan_group_uplink_port_add_locals ==
  {"handle", "vlan_group_name", "switch_id", "slot_id", "port_id",
   "is_native", "auto_negotiate", "admin_state", "name", "kwargs",
   "vlan_group", "mo"}

vlan_group_uplink_port_add(h, vlan_group_name, switch_id, slot_id, port_id,
                           kwargs) ==
  LET vlan_group == vlan_group_get(h, vlan_group_name,
                                   "vlan_group_uplink_port_add") IN
  IF vlan_group.kind # "ok" THEN vlan_group
  ELSE create_tail(vlan_group.h,
                   Bound("FabricEthVlanPortEp",
                         vlan_group_uplink_port_add_locals, vlan_globals),
                   "FabricEthVlanPortEp", "fabricEthVlanPortEp",
                   vlan_group.mo.dn,
                   "phys-switch-" \o switch_id \o "-slot-" \o slot_id
                     \o "-port-" \o port_id,
                   [switch_id |-> switch_id, slot_id |-> slot_id,
                    port_id |-> port_id, is_native |-> "no",
                    auto_negotiate |-> "yes", admin_state |-> "enabled",
                    name |-> None],
                   kwargs)

vlan_group_uplink_port_dn(vlan_group_name, switch_id, slot_id, port_id) ==
  LET vlan_group_dn_ == _lan_dn \o "/net-group-" \o vlan_group_name
  IN  vlan_group_dn_ \o "/phys-switch-" \o switch_id \o "-slot-" \o slot_id
        \o "-port-" \o port_id

vlan_group_uplink_port_get(h, vlan_group_name, switch_id, slot_id, port_id,
                           caller) ==
  get_by_dn(h, vlan_group_uplink_port_dn(vlan_group_name, switch_id, slot_id,
                                         port_id),
            caller, "vlan group member '%s' does not exist")

vlan_group_uplink_port_exists_locals ==
  {"handle", "vlan_group_name", "switch_id", "slot_id", "port_id", "kwargs",
   "mo_exists"}

vlan_group_uplink_port_exists(h, vlan_group_name, switch_id, slot_id,
                              port_id, kwargs) ==
  exists_tail(vlan_group_uplink_port_get(h, vlan_group_name, switch_id,
                                         slot_id, port_id,
                                         "vlan_group_uplink_port_exists"),
              Bound("mo", vlan_group_uplink_port_exists_locals, vlan_globals),
              kwargs)

vlan_group_uplink_port_remove_locals ==
  {"handle", "vlan_group_name", "switch_id", "slot_id", "port_id"}

vlan_group_uplink_port_remove(h, vlan_group_name, switch_id, slot_id,
                              port_id) ==
  delete_tail(vlan_group_uplink_port_get(h, vlan_group_name, switch_id,
                                         slot_id, port_id,
                                         "vlan_group_uplink_port_remove"),
              Bound("mo", vlan_group_uplink_port_remove_locals, vlan_globals),
              FALSE)

(***************************************************************************)
(* The remote tree the handle is connected to                              *)
(***************************************************************************)
DefaultProps == [k \in PropKeys |-> "local"]

\* Always there: the LAN cloud, fabric A below it, the appliance cloud, and
\* the root org.
RootTree ==
  [d \in {"fabric/lan", "fabric/lan/A", "fabric/eth-estc", "org-root"} |->
     [cls |-> CASE d = "fabric/lan" -> "fabricLanCloud"
                [] d = "fabric/lan/A" -> "fabricEthLan"
                [] d = "fabric/eth-estc" -> "fabricEthEstcCloud"
                [] OTHER -> "orgOrg",
      props |-> DefaultProps]]

\* Objects the appliance may hold when an accessor is called, each at the DN
\* the appliance gives it, with the DN of the object it hangs under.
RemoteObjects ==
  {[dn |-> "fabric/lan/net-v", cls |-> "fabricVlan",
    parent |-> "fabric/lan"],
   [dn |-> "fabric/lan/A/net-v", cls |-> "fabricVlan",
    parent |-> "fabric/lan/A"],
   [dn |-> "fabric/lan/net-group-g", cls |-> "fabricVlan",
    parent |-> "fabric/lan"],
   [dn |-> "fabric/lan/net-group-g", cls |-> "fabricNetGroup",
    parent |-> "fabric/lan"],
   [dn |-> "fabric/lan/A/pc-5", cls |-> "fabricEthLanPc",
    parent |-> "fabric/lan/A"],
   [dn |-> "fabric/lan/lan-pin-group-pg", cls |-> "fabricLanPinGroup",
    parent |-> "fabric/lan"],
   [dn |-> "fabric/lan/lan-pin-group-pg/target-A",
    cls |-> "fabricLanPinTarget", parent |-> "fabric/lan/lan-pin-group-pg"],
   [dn |-> "fabric/lan/net-group-g/net-v", cls |-> "fabricPooledVlan",
    parent |-> "fabric/lan/net-group-g"],
   [dn |-> "org-root/vlan-group-req-g", cls |-> "fabricVlanGroupReq",
    parent |-> "org-root"],
   [dn |-> "fabric/lan/net-group-g/phys-switch-A-slot-1-port-2",
    cls |-> "fabricEthVlanPortEp", parent |-> "fabric/lan/net-group-g"]}

\* A set of objects that can be in the tree together: one object per DN,
\* every object under a root or under another object of the set (a VLAN
\* group's children under a VLAN group).
WellFormed(S) ==
  /\ \A a, b \in S : a.dn = b.dn => a = b
  /\ \A a \in S :
       \/ a.parent \in DOMAIN RootTree
       \/ \E b \in S : b.dn = a.parent /\ b.cls # "fabricVlan"

TreeOf(S) ==
  [d \in DOMAIN RootTree \cup {a.dn : a \in S} |->
     IF d \in DOMAIN RootTree THEN RootTree[d]
     ELSE [cls |-> (CHOOSE a \in S : a.dn = d).cls, props |-> DefaultProps]]

NoCall ==
  [op |-> "none", id |-> <<>>, kw |-> NoKwargs, kind |-> "ok", label |-> "",
   msg |-> NoMsg, flag |-> FALSE, mo |-> NoMo, log |-> <<>>]

Init ==
  /\ \E S \in SUBSET RemoteObjects :
       /\ Cardinality(S) <= MaxObjects
       /\ WellFormed(S)
       /\ tree = TreeOf(S)
  /\ staged = <<>>
  /\ pre = tree
  /\ last = NoCall

(***************************************************************************)
(* One action per accessor                                                 *)
(***************************************************************************)
\* The accessor `op`, called with identity `id` and overrides `kw`, ended as
\* `r`.  Calls are made one at a time: the next one starts once the caller
\* has the result of this one.
Call(op, id, kw, r) ==
  /\ last.op = "none"
  /\ tree' = r.h.tree
  /\ staged' = r.h.staged
  /\ pre' = tree
  /\ last' = [op |-> op, id |-> id, kw |-> kw, kind |-> r.kind,
              label |-> r.label, msg |-> r.msg, flag |-> r.flag,
              mo |-> r.mo, log |-> r.h.log]

H == Handle(tree, staged)

VlanCreate ==
  \E name \in VlanNames, vlan_type \in VlanTypes, fabric \in Fabrics,
     kw \in CallKwargs :
    Call("vlan_create", <<name, vlan_type, fabric>>, kw,
         vlan_create(H, name, "123", vlan_type, fabric, "none", "included",
                     kw))

VlanGet ==
  \E name \in VlanNames, vlan_type \in VlanTypes, fabric \in Fabrics :
    Call("vlan_get", <<name, vlan_type, fabric>>, NoKwargs,
         vlan_get(H, name, vlan_type, fabric, "vlan_get"))

VlanExists ==
  \E name \in VlanNames, vlan_type \in VlanTypes, fabric \in Fabrics,
     kw \in CallKwargs :
    Call("vlan_exists", <<name, vlan_type, fabric>>, kw,
         vlan_exists(H, name, vlan_type, fabric, kw))

VlanModify ==
  \E name \in VlanNames, vlan_type \in VlanTypes, fabric \in Fabrics,
     kw \in CallKwargs :
    Call("vlan_modify", <<name, vlan_type, fabric>>, kw,
         vlan_modify(H, name, vlan_type, fabric, kw))

VlanDelete ==
  \E name \in VlanNames, vlan_type \in VlanTypes, fabric \in Fabrics :
    Call("vlan_delete", <<name, vlan_type, fabric>>, NoKwargs,
         vlan_delete(H, name, vlan_type, fabric))

LanPortChannelCreate ==
  \E fabric \in PcFabrics, port_id \in PcPortIds, kw \in CallKwargs :
    Call("lan_port_channel_create", <<fabric, port_id>>, kw,
         lan_port_channel_create(H, fabric, port_id, "enabled", kw))

LanPortChannelGet ==
  \E fabric \in PcFabrics, port_id \in PcPortIds :
    Call("lan_port_channel_get", <<fabric, port_id>>, NoKwargs,
         lan_port_channel_get(H, fabric, port_id, "lan_port_channel_get"))

LanPortChannelExists ==
  \E fabric \in PcFabrics, port_id \in PcPortIds, kw \in CallKwargs :
    Call("lan_port_channel_exists", <<fabric, port_id>>, kw,
         lan_port_channel_exists(H, fabric, port_id, kw))

LanPortChannelModify ==
  \E fabric \in PcFabrics, port_id \in PcPortIds, kw \in CallKwargs :
    Call("lan_port_channel_modify", <<fabric, port_id>>, kw,
         lan_port_channel_modify(H, fabric, port_id, kw))

LanPortChannelDelete ==
  \E fabric \in PcFabrics, port_id \in PcPortIds :
    Call("lan_port_channel_delete", <<fabric, port_id>>, NoKwargs,
         lan_port_channel_delete(H, fabric, port_id))

LanPinGroupCreate ==
  \E name \in PinGroupNames, kw \in CallKwargs :
    Call("lan_pin_group_create", <<name>>, kw,
         lan_pin_group_create(H, name, "local", None, kw))

LanPinGroupGet ==
  \E name \in PinGroupNames :
    Call("lan_pin_group_get", <<name>>, NoKwargs,
         lan_pin_group_get(H, name, "lan_pin_group_get"))

LanPinGroupExists ==
  \E name \in PinGroupNames, kw \in CallKwargs :
    Call("lan_pin_group_exists", <<name>>, kw,
         lan_pin_group_exists(H, name, kw))

LanPinGroupModify ==
  \E name \in PinGroupNames, kw \in CallKwargs :
    Call("lan_pin_group_modify", <<name>>, kw,
         lan_pin_group_modify(H, name, kw))

LanPinGroupDelete ==
  \E name \in PinGroupNames :
    Call("lan_pin_group_delete", <<name>>, NoKwargs,
         lan_pin_group_delete(H, name))

LanPinGroupTargetAdd ==
  \E name \in PinGroupNames, fabric_id \in FabricIds, kw \in CallKwargs :
    Call("lan_pin_group_target_add", <<name, fabric_id>>, kw,
         lan_pin_group_target_add(H, name, fabric_id, kw))

LanPinGroupTargetGet ==
  \E name \in PinGroupNames, fabric_id \in FabricIds :
    Call("lan_pin_group_target_get", <<name, fabric_id>>, NoKwargs,
         lan_pin_group_target_get(H, name, fabric_id,
                                  "lan_pin_group_target_get"))

LanPinGroupTargetExists ==
  \E name \in PinGroupNames, fabric_id \in FabricIds, kw \in CallKwargs :
    Call("lan_pin_group_target_exists", <<name, fabric_id>>, kw,
         lan_pin_group_target_exists(H, name, fabric_id, kw))

LanPinGroupTargetModify ==
  \E name \in PinGroupNames, fabric_id \in FabricIds, kw \in CallKwargs :
    Call("lan_pin_group_target_modify", <<name, fabric_id>>, kw,
         lan_pin_group_target_modify(H, name, fabric_id, kw))

LanPinGroupTargetRemove ==
  \E name \in PinGroupNames, fabric_id \in FabricIds :
    Call("lan_pin_group_target_remove", <<name, fabric_id>>, NoKwargs,
         lan_pin_group_target_remove(H, name, fabric_id))

VlanGroupCreate ==
  \E name \in GroupNames, kw \in CallKwargs :
    Call("vlan_group_create", <<name>>, kw,
         vlan_group_create(H, name, "local", None, kw))

VlanGroupGet ==
  \E name \in GroupNames :
    Call("vlan_group_get", <<name>>, NoKwargs,
         vlan_group_get(H, name, "vlan_group_get"))

VlanGroupExists ==
  \E name \in GroupNames, kw \in CallKwargs :
    Call("vlan_group_exists", <<name>>, kw, vlan_group_exists(H, name, kw))

VlanGroupModify ==
  \E name \in GroupNames, kw \in CallKwargs :
    Call("vlan_group_modify", <<name>>, kw, vlan_group_modify(H, name, kw))

VlanGroupDelete ==
  \E name \in GroupNames :
    Call("vlan_group_delete", <<name>>, NoKwargs, vlan_group_delete(H, name))

VlanGroupVlanAdd ==
  \E group \in GroupNames, name \in VlanNames, kw \in CallKwargs :
    Call("vlan_group_vlan_add", <<group, name>>, kw,
         vlan_group_vlan_add(H, group, name, kw))

VlanGroupVlanGet ==
  \E group \in GroupNames, name \in VlanNames :
    Call("vlan_group_vlan_get", <<group, name>>, NoKwargs,
         vlan_group_vlan_get(H, group, name, "vlan_group_vlan_get"))

VlanGroupVlanExists ==
  \E group \in GroupNames, name \in VlanNames, kw \in CallKwargs :
    Call("vlan_group_vlan_exists", <<group, name>>, kw,
         vlan_group_vlan_exists(H, group, name, kw))

VlanGroupVlanRemove ==
  \E group \in GroupNames, name \in VlanNames :
    Call("vlan_group_vlan_remove", <<group, name>>, NoKwargs,
         vlan_group_vlan_remove(H, group, name))

VlanGroupOrgAdd ==
  \E group \in GroupNames, org_dn \in OrgDns, kw \in CallKwargs :
    Call("vlan_group_org_add", <<group, org_dn>>, kw,
         vlan_group_org_add(H, group, org_dn, kw))

VlanGroupOrgGet ==
  \E group \in GroupNames, org_dn \in OrgDns :
    Call("vlan_group_org_get", <<group, org_dn>>, NoKwargs,
         vlan_group_org_get(H, group, org_dn, "vlan_group_org_get"))

VlanGroupOrgExists ==
  \E group \in GroupNames, org_dn \in OrgDns, kw \in CallKwargs :
    Call("vlan_group_org_exists", <<group, org_dn>>, kw,
         vlan_group_org_exists(H, group, org_dn, kw))

VlanGroupOrgRemove ==
  \E group \in GroupNames, org_dn \in OrgDns :
    Call("vlan_group_org_remove", <<group, org_dn>>, NoKwargs,
         vlan_group_org_remove(H, group, org_dn))

VlanGroupUplinkPortAdd ==
  \E group \in GroupNames, switch_id \in SwitchIds, slot_id \in SlotIds,
     port_id \in PortIds, kw \in CallKwargs :
    Call("vlan_group_uplink_port_add",
         <<group, switch_id, slot_id, port_id>>, kw,
         vlan_group_uplink_port_add(H, group, switch_id, slot_id, port_id,
                                    kw))

VlanGroupUplinkPortGet ==
  \E group \in GroupNames, switch_id \in SwitchIds, slot_id \in SlotIds,
     port_id \in PortIds :
    Call("vlan_group_uplink_port_get",
         <<group, switch_id, slot_id, port_id>>, NoKwargs,
         vlan_group_uplink_port_get(H, group, switch_id, slot_id, port_id,
                                    "vlan_group_uplink_port_get"))

VlanGroupUplinkPortExists ==
  \E group \in GroupNames, switch_id \in SwitchIds, slot_id \in SlotIds,
     port_id \in PortIds, kw \in CallKwargs :
    Call("vlan_group_uplink_port_exists",
         <<group, switch_id, slot_id, port_id>>, kw,
         vlan_group_uplink_port_exists(H, group, switch_id, slot_id, port_id,
                                       kw))

VlanGroupUplinkPortRemove ==
  \E group \in GroupNames, switch_id \in SwitchIds, slot_id \in SlotIds,
     port_id \in PortIds :
    Call("vlan_group_uplink_port_remove",
         <<group, switch_id, slot_id, port_id>>, NoKwargs,
         vlan_group_uplink_port_remove(H, group, switch_id, slot_id,
                                       port_id))

\* The caller has the result (or the exception) of the call and goes on.
CallerResumes ==
  /\ last.op # "none"
  /\ last' = NoCall
  /\ pre' = tree
  /\ UNCHANGED <<tree, staged>>

Next ==
  \/ CallerResumes
  \/ VlanCreate \/ VlanGet \/ VlanExists \/ VlanModify \/ VlanDelete
  \/ LanPortChannelCreate \/ LanPortChannelGet \/ LanPortChannelExists
  \/ LanPortChannelModify \/ LanPortChannelDelete
  \/ LanPinGroupCreate \/ LanPinGroupGet \/ LanPinGroupExists
  \/ LanPinGroupModify \/ LanPinGroupDelete
  \/ LanPinGroupTargetAdd \/ LanPinGroupTargetGet
  \/ LanPinGroupTargetExists \/ LanPinGroupTargetModify
  \/ LanPinGroupTargetRemove
  \/ VlanGroupCreate \/ VlanGroupGet \/ VlanGroupExists \/ VlanGroupModify
  \/ VlanGroupDelete
  \/ VlanGroupVlanAdd \/ VlanGroupVlanGet \/ VlanGroupVlanExists
  \/ VlanGroupVlanRemove
  \/ VlanGroupOrgAdd \/ VlanGroupOrgGet \/ VlanGroupOrgExists
  \/ VlanGroupOrgRemove
  \/ VlanGroupUplinkPortAdd \/ VlanGroupUplinkPortGet
  \/ VlanGroupUplinkPortExists \/ VlanGroupUplinkPortRemove

Spec == Init /\ [][Next]_vars

(***************************************************************************)
(* Vocabulary of the properties                                            *)
(***************************************************************************)
VlanOps == {"vlan_create", "vlan_get", "vlan_exists", "vlan_modify",
            "vlan_delete"}
PortChannelOps == {"lan_port_channel_create", "lan_port_channel_get",
                   "lan_port_channel_exists", "lan_port_channel_modify",
                   "lan_port_channel_delete"}
PinGroupOps == {"lan_pin_group_create", "lan_pin_group_get",
                "lan_pin_group_exists", "lan_pin_group_modify",
                "lan_pin_group_delete"}
TargetOps == {"lan_pin_group_target_add", "lan_pin_group_target_get",
              "lan_pin_group_target_exists", "lan_pin_group_target_modify",
              "lan_pin_group_target_remove"}
GroupOps == {"vlan_group_create", "vlan_group_get", "vlan_group_exists",
             "vlan_group_modify", "vlan_group_delete"}
MemberOps == {"vlan_group_vlan_add", "vlan_group_vlan_get",
              "vlan_group_vlan_exists", "vlan_group_vlan_remove"}
OrgOps == {"vlan_group_org_add", "vlan_group_org_get",
           "vlan_group_org_exists", "vlan_group_org_remove"}
UplinkOps == {"vlan_group_uplink_port_add", "vlan_group_uplink_port_get",
              "vlan_group_uplink_port_exists",
              "vlan_group_uplink_port_remove"}

CreateOps == {"vlan_create", "lan_port_channel_create",
              "lan_pin_group_create", "vlan_group_create"}
AddOps == {"lan_pin_group_target_add", "vlan_group_vlan_add",
           "vlan_group_org_add", "vlan_group_uplink_port_add"}
GetOps == {"vlan_get", "lan_port_channel_get", "lan_pin_group_get",
           "lan_pin_group_target_get", "vlan_group_get",
           "vlan_group_vlan_get", "vlan_group_org_get",
           "vlan_group_uplink_port_get"}
ExistsOps == {"vlan_exists", "lan_port_channel_exists",
              "lan_pin_group_exists", "lan_pin_group_target_exists",
              "vlan_group_exists", "vlan_group_vlan_exists",
              "vlan_group_org_exists", "vlan_group_uplink_port_exists"}
ModifyOps == {"vlan_modify", "lan_port_channel_modify",
              "lan_pin_group_modify", "lan_pin_group_target_modify",
              "vlan_group_modify"}
DeleteOps == {"vlan_delete", "lan_port_channel_delete",
              "lan_pin_group_delete", "lan_pin_group_target_remove",
              "vlan_group_delete", "vlan_group_vlan_remove",
              "vlan_group_org_remove", "vlan_group_uplink_port_remove"}

\* The identifying fields are ones the accessor documents as valid.
ValidId(op, id) == op \in VlanOps => id[2] \in {"lan", "appliance"}

\* The DN the data model gives the identity a call names.
IdentityDn(op, id) ==
  CASE op \in VlanOps ->
         (IF id[2] = "appliance" THEN "fabric/eth-estc" ELSE "fabric/lan")
           \o (IF id[3] = None THEN "" ELSE "/" \o id[3])
           \o "/net-" \o id[1]
    [] op \in PortChannelOps -> "fabric/lan/" \o id[1] \o "/pc-" \o id[2]
    [] op \in PinGroupOps -> "fabric/lan/lan-pin-group-" \o id[1]
    [] op \in TargetOps ->
         "fabric/lan/lan-pin-group-" \o id[1] \o "/target-" \o id[2]
    [] op \in GroupOps -> "fabric/lan/net-group-" \o id[1]
    [] op \in MemberOps ->
         "fabric/lan/net-group-" \o id[1] \o "/net-" \o id[2]
    [] op \in OrgOps -> id[2] \o "/vlan-group-req-" \o id[1]
    [] op \in UplinkOps ->
         "fabric/lan/net-group-" \o id[1] \o "/phys-switch-" \o id[2]
           \o "-slot-" \o id[3] \o "-port-" \o id[4]
    [] OTHER -> ""

\* The DNs of the objects a create/add call declares as parents.
ParentDns(op, id) ==
  CASE op = "vlan_create" ->
         {(IF id[2] = "appliance" THEN "fabric/eth-estc" ELSE "fabric/lan")
            \o (IF id[3] = None THEN "" ELSE "/" \o id[3])}
    [] op = "lan_port_channel_create" -> {"fabric/lan/" \o id[1]}
    [] op = "lan_pin_group_target_add" ->
         {"fabric/lan/lan-pin-group-" \o id[1]}
    [] op \in {"vlan_group_vlan_add", "vlan_group_uplink_port_add"} ->
         {"fabric/lan/net-group-" \o id[1]}
    [] op = "vlan_group_org_add" ->
         {"fabric/lan/net-group-" \o id[1], id[2]}
    [] OTHER -> {"fabric/lan"}

\* The class of the objects of the resource type `op` belongs to.
ClassOf(op) ==
  CASE op \in VlanOps -> "fabricVlan"
    [] op \in PortChannelOps -> "fabricEthLanPc"
    [] op \in PinGroupOps -> "fabricLanPinGroup"
    [] op \in TargetOps -> "fabricLanPinTarget"
    [] op \in GroupOps -> "fabricNetGroup"
    [] op \in MemberOps -> "fabricPooledVlan"
    [] op \in OrgOps -> "fabricVlanGroupReq"
    [] OTHER -> "fabricEthVlanPortEp"

\* The modify accessor of the resource type `op` belongs to, on handle h.
ModifyFor(op, id, kw, h) ==
  CASE op = "vlan_modify" -> vlan_modify(h, id[1], id[2], id[3], kw)
    [] op = "lan_port_channel_modify" ->
         lan_port_channel_modify(h, id[1], id[2], kw)
    [] op = "lan_pin_group_modify" -> lan_pin_group_modify(h, id[1], kw)
    [] op = "lan_pin_group_target_modify" ->
         lan_pin_group_target_modify(h, id[1], id[2], kw)
    [] OTHER -> vlan_group_modify(h, id[1], kw)

\* The get accessor of the resource type `op` belongs to, on handle h.
GetFor(op, id, h) ==
  CASE op \in VlanOps -> vlan_get(h, id[1], id[2], id[3], "vlan_get")
    [] op \in PortChannelOps ->
         lan_port_channel_get(h, id[1], id[2], "lan_port_channel_get")
    [] op \in PinGroupOps -> lan_pin_group_get(h, id[1], "lan_pin_group_get")
    [] op \in TargetOps ->
         lan_pin_group_target_get(h, id[1], id[2],
                                  "lan_pin_group_target_get")
    [] op \in GroupOps -> vlan_group_get(h, id[1], "vlan_group_get")
    [] op \in MemberOps ->
         vlan_group_vlan_get(h, id[1], id[2], "vlan_group_vlan_get")
    [] op \in OrgOps ->
         vlan_group_org_get(h, id[1], id[2], "vlan_group_org_get")
    [] OTHER ->
         vlan_group_uplink_port_get(h, id[1], id[2], id[3], id[4],
                                    "vlan_group_uplink_port_get")

\* The handle primitives the last call invoked.
Invoked == {last.log[i].prim : i \in 1..Len(last.log)}

Called == last.op # "none"

(***************************************************************************)
(* C1                                                                      *)
(***************************************************************************)
\* The fields vlan_create and lan_port_channel_create were given here, with
\* the documented defaults for the omitted ones.
C1_Supplied(op, id) ==
  IF op = "vlan_create"
  THEN [name |-> id[1], id |-> "123", sharing |-> "none",
        compression_type |-> "included"]
  ELSE [port_id |-> id[2], admin_state |-> "enabled"]

\* C1.  A create (VLAN, port channel) with valid identifying fields whose
\* fabric parent exists returns normally, and a get of the same identity on
\* the resulting tree then returns the object at the identity's DN whose
\* properties are the values supplied to create, the documented defaults
\* (sharing "none", compression_type "included") for the omitted ones and
\* the overrides on top.
C1_CreateThenGet ==
  (/\ last.op \in {"vlan_create", "lan_port_channel_create"}
   /\ ValidId(last.op, last.id)
   /\ ParentDns(last.op, last.id) \subseteq DOMAIN pre)
  => LET g == GetFor(last.op, last.id, Handle(tree, staged))
         want == set_prop_multiple(Mo("", "", C1_Supplied(last.op, last.id)),
                                   last.kw).props
     IN  /\ last.kind = "ok"
         /\ g.kind = "ok"
         /\ g.mo.dn = IdentityDn(last.op, last.id)
         /\ \A k \in DOMAIN want :
              k \in DOMAIN g.mo.props /\ g.mo.props[k] = want[k]

(***************************************************************************)
(* C2                                                                      *)
(***************************************************************************)
\* C2.  An exists accessor never raises, and answers (True, obj) exactly
\* when the object is in the tree at the identity's DN and every expected
\* key has the expected value; otherwise it answers (False, None).
C2_ExistsIffPresentAndMatching ==
  (last.op \in ExistsOps /\ ValidId(last.op, last.id))
  => LET dn == IdentityDn(last.op, last.id)
         there == dn \in DOMAIN pre
         match == there /\ check_prop_match(Mo(dn, pre[dn].cls,
                                               pre[dn].props), last.kw)
     IN  /\ last.kind = "ok"
         /\ last.flag <=> match
         /\ last.flag => last.mo = Mo(dn, pre[dn].cls, pre[dn].props)
         /\ ~last.flag => last.mo = NoMo

(***************************************************************************)
(* C3                                                                      *)
(***************************************************************************)
\* C3.  A delete/remove of an identity whose object is present returns
\* normally and leaves it absent: a get of the same identity then raises
\* UcsOperationError with the object's DN in its message.
C3_DeleteThenGetRaises ==
  (/\ last.op \in DeleteOps
   /\ ValidId(last.op, last.id)
   /\ IdentityDn(last.op, last.id) \in DOMAIN pre)
  => LET dn == IdentityDn(last.op, last.id)
         g == GetFor(last.op, last.id, Handle(tree, staged))
     IN  /\ last.kind = "ok"
         /\ dn \notin DOMAIN tree
         /\ g.kind = "UcsOperationError"
         /\ g.msg.arg = dn

(***************************************************************************)
(* C4                                                                      *)
(***************************************************************************)
\* C4.  vlan_create with a vlan_type that is neither "lan" nor "appliance"
\* raises UcsOperationError having invoked no handle primitive (no query_dn,
\* add_mo, set_mo, remove_mo or commit), and the remote tree and the
\* handle's staged changes are as before the call.
C4_BadVlanTypeRaisesBeforeRemote ==
  (last.op = "vlan_create" /\ last.id[2] \notin {"lan", "appliance"})
  => /\ last.kind = "UcsOperationError"
     /\ last.log = <<>>
     /\ tree = pre
     /\ staged = <<>>

\* A vlan_create with vlan_type "bogus" has raised UcsOperationError.
C4_Witness ==
  /\ last.op = "vlan_create"
  /\ last.id[2] = "bogus"
  /\ last.kind = "UcsOperationError"
  /\ last.label = "vlan_create"

(***************************************************************************)
(* C5                                                                      *)
(***************************************************************************)
IdNames == {"v", "g", "group-g", "pg"}
IdFabrics == {"A", "B"}
IdPorts == {"2", "5"}

\* Identity tuples of every resource type, tagged with the type.
Identities ==
  {<<"vlan", n, f>> : n \in IdNames, f \in IdFabrics \cup {None}}
    \cup {<<"port_channel", f, p>> : f \in IdFabrics, p \in IdPorts}
    \cup {<<"pin_group", n>> : n \in IdNames}
    \cup {<<"target", n, f>> : n \in IdNames, f \in IdFabrics}
    \cup {<<"vlan_group", n>> : n \in IdNames}
    \cup {<<"member", g, n>> : g \in IdNames, n \in IdNames}
    \cup {<<"org", g, o>> : g \in IdNames, o \in OrgDns}
    \cup {<<"uplink", g, s, p>> : g \in {"g", "pg"}, s \in IdFabrics,
                                   p \in IdPorts}

\* The DN the get accessor of the identity's type builds for it.
DnOf(i) ==
  CASE i[1] = "vlan" -> vlan_dn(i[2], "lan", i[3])
    [] i[1] = "port_channel" -> lan_port_channel_dn(i[2], i[3])
    [] i[1] = "pin_group" -> lan_pin_group_dn(i[2])
    [] i[1] = "target" -> lan_pin_group_target_dn(i[2], i[3])
    [] i[1] = "vlan_group" -> vlan_group_dn(i[2])
    [] i[1] = "member" -> vlan_group_vlan_dn(i[2], i[3])
    [] i[1] = "org" -> vlan_group_org_dn(i[2], i[3])
    [] OTHER -> vlan_group_uplink_port_dn(i[2], i[3], "1", i[4])

\* i is the LAN VLAN "group-<g>" outside any fabric and j the VLAN group g.
VlanGroupClash(i, j) ==
  /\ i[1] = "vlan" /\ i[3] = None
  /\ j[1] = "vlan_group"
  /\ i[2] = "group-" \o j[2]

DnsInjectiveUpToClash ==
  \A i, j \in Identities :
    (i # j /\ DnOf(i) = DnOf(j)) => VlanGroupClash(i, j) \/ VlanGroupClash(j, i)

\* The last call found an object at the DN of its identity and returned
\* normally: it read, changed or removed that object.
ActedOnObject ==
  /\ last.op \in GetOps \cup ExistsOps \cup ModifyOps \cup DeleteOps
  /\ ValidId(last.op, last.id)
  /\ last.kind = "ok"
  /\ IdentityDn(last.op, last.id) \in DOMAIN pre

\* The last call named a fabric-less LAN VLAN "group-<g>" and acted on VLAN
\* group g, or named VLAN group g and acted on the VLAN "group-<g>".
ActedOnClash ==
  LET cls == pre[IdentityDn(last.op, last.id)].cls IN
  \/ /\ last.op \in VlanOps
     /\ last.id[2] = "lan" /\ last.id[3] = None
     /\ \E g \in GroupNames : last.id[1] = "group-" \o g
     /\ cls = "fabricNetGroup"
  \/ /\ last.op \in GroupOps
     /\ cls = "fabricVlan"

\* C5 as stated: an operation on one identity never reads, modifies or
\* deletes the object of another identity, so the object an accessor acts
\* on is always one of its own resource type.
C5_OnlyOwnObject ==
  ActedOnObject
  => pre[IdentityDn(last.op, last.id)].cls = ClassOf(last.op)

\* C5, amended.  The DN builders of the get accessors are injective within
\* each resource type, and two identities of different types share a DN only
\* when one is the LAN VLAN named "group-<g>" outside any fabric and the
\* other is the VLAN group g (both are fabric/lan/net-group-<g>).  Apart
\* from that pair, the object an accessor reads, modifies or deletes is one
\* of its own resource type.
C5_DnsInjectiveUpToVlanGroupClash ==
  /\ DnsInjectiveUpToClash
  /\ ActedOnObject
     => \/ pre[IdentityDn(last.op, last.id)].cls = ClassOf(last.op)
        \/ ActedOnClash

\* vlan_delete of the VLAN "group-g" has removed the VLAN group g.
C5_Witness ==
  /\ last.op = "vlan_delete"
  /\ last.id = <<"group-g", "lan", None>>
  /\ last.kind = "ok"
  /\ pre["fabric/lan/net-group-g"].cls = "fabricNetGroup"
  /\ "fabric/lan/net-group-g" \notin DOMAIN tree

(***************************************************************************)
(* C6                                                                      *)
(***************************************************************************)
\* C6.  A create for an identity whose object is already present returns
\* normally, and afterwards the one object at the identity's DN carries the
\* properties of this create call.
C6_CreateIdempotent ==
  (/\ last.op \in CreateOps
   /\ ValidId(last.op, last.id)
   /\ IdentityDn(last.op, last.id) \in DOMAIN pre)
  => LET dn == IdentityDn(last.op, last.id) IN
     /\ last.kind = "ok"
     /\ dn \in DOMAIN tree
     /\ \A k \in DOMAIN last.kw :
          k \in DOMAIN tree[dn].props /\ tree[dn].props[k] = last.kw[k]

(***************************************************************************)
(* C7                                                                      *)
(***************************************************************************)
\* C7.  vlan_create, lan_port_channel_create, lan_pin_group_target_add,
\* vlan_group_uplink_port_add and vlan_group_org_add, called while a
\* declared parent is absent from the tree, raise the not-found
\* UcsOperationError, issue no add_mo and no commit, and create nothing.
C7_AbsentParentNotFound ==
  (/\ last.op \in {"vlan_create", "lan_port_channel_create",
                   "lan_pin_group_target_add",
                   "vlan_group_uplink_port_add", "vlan_group_org_add"}
   /\ ValidId(last.op, last.id)
   /\ ~(ParentDns(last.op, last.id) \subseteq DOMAIN pre))
  => /\ last.kind = "UcsOperationError"
     /\ "add_mo" \notin Invoked
     /\ "commit" \notin Invoked
     /\ tree = pre

(***************************************************************************)
(* C8                                                                      *)
(***************************************************************************)
\* A VLAN of this name is in the tree t, in whichever scope.
VlanPresent(t, name) ==
  \E d \in {"fabric/lan/net-" \o name, "fabric/lan/A/net-" \o name,
            "fabric/lan/B/net-" \o name, "fabric/eth-estc/net-" \o name,
            "fabric/eth-estc/A/net-" \o name,
            "fabric/eth-estc/B/net-" \o name} :
    d \in DOMAIN t /\ t[d].cls = "fabricVlan"

VlanGroupPresent(t, name) ==
  /\ "fabric/lan/net-group-" \o name \in DOMAIN t
  /\ t["fabric/lan/net-group-" \o name].cls = "fabricNetGroup"

\* C8.  vlan_group_vlan_add(group, name) returns normally with the member at
\* fabric/lan/net-group-{group}/net-{name} when the VLAN group and a VLAN of
\* that name (in any scope) are present, creates no member otherwise, and
\* raises UcsOperationError when the VLAN is absent.
C8_MemberAddedIffGroupAndVlan ==
  last.op = "vlan_group_vlan_add"
  => LET m == IdentityDn(last.op, last.id)
         both == /\ VlanGroupPresent(pre, last.id[1])
                 /\ VlanPresent(pre, last.id[2])
     IN  /\ both => (last.kind = "ok" /\ m \in DOMAIN tree)
         /\ ~both => (m \in DOMAIN tree <=> m \in DOMAIN pre)
         /\ ~VlanPresent(pre, last.id[2])
            => (last.kind = "UcsOperationError" /\ tree = pre)

(***************************************************************************)
(* C9                                                                      *)
(***************************************************************************)
\* C9.  A modify of a present object returns normally and changes exactly
\* the given keys of that object; the same modify applied again returns
\* normally and leaves the tree as it is.
C9_ModifyIdempotent ==
  (/\ last.op \in ModifyOps
   /\ ValidId(last.op, last.id)
   /\ IdentityDn(last.op, last.id) \in DOMAIN pre)
  => LET dn == IdentityDn(last.op, last.id)
         again == ModifyFor(last.op, last.id, last.kw, Handle(tree, staged))
     IN  /\ last.kind = "ok"
         /\ DOMAIN tree = DOMAIN pre
         /\ \A d \in DOMAIN pre \ {dn} : tree[d] = pre[d]
         /\ tree[dn] =
              [cls |-> pre[dn].cls,
               props |-> set_prop_multiple(Mo(dn, pre[dn].cls, pre[dn].props),
                                           last.kw).props]
         /\ again.kind = "ok"
         /\ again.h.tree = tree

(***************************************************************************)
(* C10                                                                     *)
(***************************************************************************)
\* The caller label each modify/delete accessor hands to its get accessor.
CallerLabel(op) ==
  CASE op = "lan_pin_group_modify" -> "lan_ping_group_modify"
    [] op = "lan_pin_group_delete" -> "lan_ping_group_delete"
    [] OTHER -> op

\* C10.  A modify or delete/remove of an identity whose object is absent
\* raises the get accessor's not-found UcsOperationError, carrying the label
\* the calling accessor passed and the DN, and leaves the tree unchanged: no
\* set_mo, remove_mo or commit is issued.
C10_AbsentRaisesNotFound ==
  (/\ last.op \in ModifyOps \cup DeleteOps
   /\ ValidId(last.op, last.id)
   /\ IdentityDn(last.op, last.id) \notin DOMAIN pre)
  => /\ last.kind = "UcsOperationError"
     /\ last.label = CallerLabel(last.op)
     /\ last.msg.arg = IdentityDn(last.op, last.id)
     /\ Invoked \subseteq {"query_dn"}
     /\ tree = pre
     /\ staged = <<>>

(***************************************************************************)
(* C11                                                                     *)
(***************************************************************************)
StagingPrims == {"add_mo", "set_mo", "remove_mo"}

\* Every staging primitive of the last call is directly followed by a
\* commit, and every commit directly follows a staging primitive.
StagedThenCommitted ==
  /\ \A i \in 1..Len(last.log) :
       last.log[i].prim \in StagingPrims
         => i < Len(last.log) /\ last.log[i + 1].prim = "commit"
  /\ \A i \in 1..Len(last.log) :
       last.log[i].prim = "commit"
         => i > 1 /\ last.log[i - 1].prim \in StagingPrims

\* C11.  In every create/add, modify and delete/remove accessor each staged
\* add_mo/set_mo/remove_mo is directly followed by exactly one commit, so
\* after an accessor has returned normally the handle holds no staged change;
\* get and exists accessors invoke nothing but query_dn and leave the tree
\* as it was.
C11_SelfCommitting ==
  Called
  => /\ StagedThenCommitted
     /\ last.kind = "ok" => staged = <<>>
     /\ last.op \in GetOps \cup ExistsOps
          => /\ Invoked \subseteq {"query_dn"}
             /\ tree = pre
             /\ staged = <<>>

\* C11 witness: a modify or delete/remove accessor returned normally after
\* staging its one change and committing it.
C11_Witness ==
  /\ last.op \in ModifyOps \cup DeleteOps
  /\ last.kind = "ok"
  /\ Len(last.log) >= 2
  /\ last.log[Len(last.log) - 1].prim \in {"set_mo", "remove_mo"}
  /\ last.log[Len(last.log)].prim = "commit"
  /\ staged = <<>>

====
